---- MODULE Spec2Model ----
(***************************************************************************)
(* ChatClient::chat_stream of src/src/main.rs: the send loop with its      *)
(* retries, followed by the loop that reads the response body chunk by     *)
(* chunk, splits every chunk into lines and writes the content deltas of   *)
(* the `data: ` lines to stdout.                                           *)
(*                                                                         *)
(* Text is a sequence of one-character strings.  The bytes of the body are *)
(* ASCII characters plus the two bytes "xC3" "xA9" (the UTF-8 encoding of  *)
(* U+00E9); decoded text may also hold "U+00E9" and "U+FFFD".  The input   *)
(* alphabet has no backslash and no control character other than CR, LF.   *)
(***************************************************************************)
EXTENDS Integers, Sequences, FiniteSets, TLC

\* ------------------------------------------------------------ bounds
\* The most items (chunks and error items) the byte stream yields.
MaxItems == 2

\* ------------------------------------------------------------ literals
\* main.rs:236
max_attempts == 3

\* main.rs:274  "data: "
DataPrefix == <<"d", "a", "t", "a", ":", " ">>
\* main.rs:276  "[DONE]"
DoneToken == <<"[", "D", "O", "N", "E", "]">>
\* main.rs:287  the keys of json["choices"][0]["delta"]["content"]
KeyChoices == <<"c", "h", "o", "i", "c", "e", "s">>
KeyDelta == <<"d", "e", "l", "t", "a">>
KeyContent == <<"c", "o", "n", "t", "e", "n", "t">>
\* main.rs:280  b"\n"
Newline == <<"\n">>

\* ------------------------------------------------------------ text
StartsWith(s, p) ==
    /\ Len(s) >= Len(p)
    /\ \A i \in 1..Len(p) : s[i] = p[i]

Drop(s, n) == SubSeq(s, n + 1, Len(s))

IsPrefix(p, s) == Len(p) <= Len(s) /\ SubSeq(s, 1, Len(p)) = p

\* The least element of a non-empty set of numbers.
Min(S) == CHOOSE i \in S : \A j \in S : i <= j

\* String::from_utf8_lossy (main.rs:269): ASCII bytes are kept, the pair
\* C3 A9 decodes to U+00E9, and a lead byte without its continuation byte, or a
\* continuation byte without its lead byte, becomes U+FFFD.
from_utf8_lossy(bytes) ==
    LET n == Len(bytes)
        Paired(i) == i > 1 /\ bytes[i] = "xA9" /\ bytes[i - 1] = "xC3"
        Char(i) ==
            IF bytes[i] = "xC3"
            THEN (IF i < n /\ bytes[i + 1] = "xA9" THEN "U+00E9" ELSE "U+FFFD")
            ELSE IF bytes[i] = "xA9"
            THEN (IF Paired(i) THEN "" ELSE "U+FFFD")
            ELSE bytes[i]
    IN  SelectSeq([i \in 1..n |-> Char(i)], LAMBDA c : c # "")

\* str::as_bytes (main.rs:289): the UTF-8 encoding of the text.
RECURSIVE as_bytes(_)
as_bytes(text) ==
    IF text = <<>> THEN <<>>
    ELSE (CASE Head(text) = "U+00E9" -> <<"xC3", "xA9">>
            [] Head(text) = "U+FFFD" -> <<"xEF", "xBF", "xBD">>
            [] OTHER -> <<Head(text)>>) \o as_bytes(Tail(text))

\* The index of the first LF of text, 0 when there is none.
FindLF(text) ==
    LET S == {i \in 1..Len(text) : text[i] = "\n"} IN
    IF S = {} THEN 0 ELSE Min(S)

\* A line without its terminator: str::lines strips the LF and, only when an
\* LF was stripped, one CR before it.
StripCR(line) ==
    IF line # <<>> /\ line[Len(line)] = "\r" THEN SubSeq(line, 1, Len(line) - 1)
    ELSE line

\* str::lines (main.rs:273): the lines of text, split at LF or CR LF; a last
\* line without terminator is a line when it is not empty.
RECURSIVE lines(_)
lines(text) ==
    IF text = <<>> THEN <<>>
    ELSE LET k == FindLF(text) IN
         IF k = 0 THEN <<text>>
         ELSE <<StripCR(SubSeq(text, 1, k - 1))>> \o lines(Drop(text, k))

\* ------------------------------------------------------------ JSON
\* serde_json::Value: t is the kind, v the characters of a string or number,
\* the elements of an array, or the members [k, val] of an object in order.
Null == [t |-> "null", v |-> <<>>]
Fail == [ok |-> FALSE, pos |-> 0, val |-> Null]
Parsed(val, pos) == [ok |-> TRUE, pos |-> pos, val |-> val]

Whitespace == {" ", "\n", "\r", "\t"}
Digits == {"0", "1", "2", "3", "4", "5", "6", "7", "8", "9"}
LitTrue == <<"t", "r", "u", "e">>
LitFalse == <<"f", "a", "l", "s", "e">>
LitNull == <<"n", "u", "l", "l">>

RECURSIVE SkipWs(_, _)
SkipWs(s, i) ==
    IF i <= Len(s) /\ s[i] \in Whitespace THEN SkipWs(s, i + 1) ELSE i

At(s, i, c) == i <= Len(s) /\ s[i] = c

\* The position of the first quote at or after i, 0 when there is none.
FindQuote(s, i) ==
    LET S == {j \in i..Len(s) : s[j] = "\""} IN
    IF S = {} THEN 0 ELSE Min(S)

\* A string whose opening quote is at i.
ParseString(s, i) ==
    LET q == FindQuote(s, i + 1) IN
    IF q = 0 THEN Fail
    ELSE Parsed([t |-> "str", v |-> SubSeq(s, i + 1, q - 1)], q + 1)

RECURSIVE DigitsEnd(_, _)
DigitsEnd(s, i) ==
    IF i <= Len(s) /\ s[i] \in Digits THEN DigitsEnd(s, i + 1) ELSE i

\* An integer starting at i: an optional sign, then 0 or a digit string that
\* does not start with 0.
ParseNumber(s, i) ==
    LET d == IF At(s, i, "-") THEN i + 1 ELSE i
        e == IF At(s, d, "0") THEN d + 1 ELSE DigitsEnd(s, d)
    IN  IF e = d \/ (e <= Len(s) /\ s[e] \in Digits) THEN Fail
        ELSE Parsed([t |-> "num", v |-> SubSeq(s, i, e - 1)], e)

ParseLiteral(s, i, lit, val) ==
    IF StartsWith(Drop(s, i - 1), lit) THEN Parsed(val, i + Len(lit)) ELSE Fail

RECURSIVE ParseValue(_, _)
RECURSIVE ParseElems(_, _, _)
RECURSIVE ParseMembers(_, _, _)

\* The value starting at or after i, with the position after it.
ParseValue(s, i) ==
    LET j == SkipWs(s, i) IN
    IF j > Len(s) THEN Fail
    ELSE IF s[j] = "{" THEN
        (IF At(s, SkipWs(s, j + 1), "}")
         THEN Parsed([t |-> "obj", v |-> <<>>], SkipWs(s, j + 1) + 1)
         ELSE ParseMembers(s, j + 1, <<>>))
    ELSE IF s[j] = "[" THEN
        (IF At(s, SkipWs(s, j + 1), "]")
         THEN Parsed([t |-> "arr", v |-> <<>>], SkipWs(s, j + 1) + 1)
         ELSE ParseElems(s, j + 1, <<>>))
    ELSE IF s[j] = "\"" THEN ParseString(s, j)
    ELSE IF s[j] = "t" THEN ParseLiteral(s, j, LitTrue, [t |-> "bool", v |-> LitTrue])
    ELSE IF s[j] = "f" THEN ParseLiteral(s, j, LitFalse, [t |-> "bool", v |-> LitFalse])
    ELSE IF s[j] = "n" THEN ParseLiteral(s, j, LitNull, Null)
    ELSE IF s[j] = "-" \/ s[j] \in Digits THEN ParseNumber(s, j)
    ELSE Fail

\* The elements of an array from i on, after the elements acc.
ParseElems(s, i, acc) ==
    LET e == ParseValue(s, i)
        j == SkipWs(s, e.pos)
    IN  IF ~e.ok THEN Fail
        ELSE IF At(s, j, ",") THEN ParseElems(s, j + 1, Append(acc, e.val))
        ELSE IF At(s, j, "]") THEN Parsed([t |-> "arr", v |-> Append(acc, e.val)], j + 1)
        ELSE Fail

\* The members of an object from i on, after the members acc.
ParseMembers(s, i, acc) ==
    LET k == SkipWs(s, i)
        key == IF At(s, k, "\"") THEN ParseString(s, k) ELSE Fail
        c == SkipWs(s, key.pos)
        e == IF key.ok /\ At(s, c, ":") THEN ParseValue(s, c + 1) ELSE Fail
        j == SkipWs(s, e.pos)
        all == Append(acc, [k |-> key.val.v, val |-> e.val])
    IN  IF ~e.ok THEN Fail
        ELSE IF At(s, j, ",") THEN ParseMembers(s, j + 1, all)
        ELSE IF At(s, j, "}") THEN Parsed([t |-> "obj", v |-> all], j + 1)
        ELSE Fail

\* serde_json::from_str::<Value> (main.rs:284): one value and nothing but
\* whitespace after it; ok is FALSE for the Err result.
from_str(data) ==
    LET r == ParseValue(data, 1) IN
    IF r.ok /\ SkipWs(data, r.pos) = Len(data) + 1 THEN r ELSE Fail

\* Value's Index by key (main.rs:287): the member's value (the last one of
\* that key), Null when the value is no object or has no such member.
RECURSIVE Lookup(_, _, _)
Lookup(members, key, n) ==
    IF n = 0 THEN Null
    ELSE IF members[n].k = key THEN members[n].val
    ELSE Lookup(members, key, n - 1)

IndexKey(json, key) ==
    IF json.t = "obj" THEN Lookup(json.v, key, Len(json.v)) ELSE Null

\* Value's Index by position, counted from 0 (main.rs:287).
IndexPos(json, n) ==
    IF json.t = "arr" /\ n < Len(json.v) THEN json.v[n + 1] ELSE Null

\* json["choices"][0]["delta"]["content"] (main.rs:287).
ContentValue(json) ==
    IndexKey(IndexKey(IndexPos(IndexKey(json, KeyChoices), 0), KeyDelta), KeyContent)

\* Value::as_str (main.rs:287): whether the value is a string.
IsStr(val) == val.t = "str"

\* ------------------------------------------------------------ the line loop
\* The body of the loop over the lines of a chunk (main.rs:274-301) for one
\* line: what the line is taken for and the bytes written (and flushed) for it.
ProcessLine(line) ==
    IF ~StartsWith(line, DataPrefix) THEN [kind |-> "ignored", bytes |-> <<>>]
    ELSE LET data == Drop(line, 6)
             r == from_str(data)
         IN  IF data = DoneToken THEN [kind |-> "done", bytes |-> Newline]
             ELSE IF ~r.ok THEN [kind |-> "parse_error", bytes |-> <<>>]
             ELSE IF IsStr(ContentValue(r.val))
                  THEN [kind |-> "delta", bytes |-> as_bytes(ContentValue(r.val).v)]
             ELSE [kind |-> "no_content", bytes |-> <<>>]

\* The end of the loop over the lines, had the sentinel not ended it.
Breaks_Never(kind) == FALSE

\* The end of the loop over the lines, had a payload that does not parse ended
\* it too.
Breaks_OnParseError(kind) == kind \in {"done", "parse_error"}

\* Whether the loop over the lines ends after a line of this kind (main.rs:282).
Breaks(kind) == kind = "done"

\* The loop over the lines of a chunk (main.rs:273-302): the outcome of every
\* line it gets to, in order.
RECURSIVE ForLines(_)
ForLines(ls) ==
    IF ls = <<>> THEN <<>>
    ELSE LET p == ProcessLine(Head(ls)) IN
         IF Breaks(p.kind) THEN <<p>> ELSE <<p>> \o ForLines(Tail(ls))

Writes(kind) == kind \in {"delta", "done"}

\* The bytes a sequence of line outcomes writes to stdout (main.rs:280, 289).
RECURSIVE Written(_)
Written(ps) ==
    IF ps = <<>> THEN <<>>
    ELSE (IF Writes(Head(ps).kind) THEN Head(ps).bytes ELSE <<>>) \o Written(Tail(ps))

\* The Ok(bytes) arm (main.rs:268-303) for one chunk.
ProcessChunk(bytes) == ForLines(lines(from_utf8_lossy(bytes)))

HasKind(ps, kind) == \E i \in 1..Len(ps) : ps[i].kind = kind

\* ------------------------------------------------------------ responses
Line(payload) == DataPrefix \o payload
ContentJson(c) == <<"{", "\"", "c", "h", "o", "i", "c", "e", "s", "\"", ":", "[", "{", "\"", "d", "e", "l", "t", "a", "\"", ":", "{", "\"", "c", "o", "n", "t", "e", "n", "t", "\"", ":", "\"">> \o c \o <<"\"", "}", "}", "]", "}">>
ContentLine(c) == Line(ContentJson(c))
LF == <<"\n">>
CRLF == <<"\r", "\n">>

Hel == <<"H", "e", "l">>
lo == <<"l", "o">>
partial == <<"p", "a", "r", "t", "i", "a", "l">>
X == <<"X">>
Y == <<"Y">>
EAcute == <<"xC3", "xA9">>

DoneLine == Line(DoneToken)
CommentLine == <<":", " ", "p", "i", "n", "g">>
BadJsonLine == Line(<<"{", "\"", "c", "h", "o", "i", "c", "e", "s", "\"", ":", "[">>)
NoContentLine == Line(<<"{", "\"", "c", "h", "o", "i", "c", "e", "s", "\"", ":", "[", "]", "}">>)
NumContentLine == Line(<<"{", "\"", "c", "h", "o", "i", "c", "e", "s", "\"", ":", "[", "{", "\"", "d", "e", "l", "t", "a", "\"", ":", "{", "\"", "c", "o", "n", "t", "e", "n", "t", "\"", ":", "7", "}", "}", "]", "}">>)

\* Response bodies of a streamed completion: each a sequence of lines with
\* their terminators.
HelloBody == ContentLine(Hel) \o LF \o ContentLine(lo) \o LF \o DoneLine \o LF
DoneBody == DoneLine \o LF
PartialBody == ContentLine(partial) \o LF
XBody == ContentLine(X) \o LF
XDoneBody == ContentLine(X) \o LF \o DoneLine \o LF
DoneXBody == DoneLine \o LF \o ContentLine(X) \o LF
TwoDoneBody == DoneLine \o LF \o DoneLine \o LF
AnomalyBody ==
    CommentLine \o LF \o BadJsonLine \o LF \o NoContentLine \o LF \o ContentLine(X) \o LF
NumContentBody == NumContentLine \o LF \o DoneLine \o LF
EventsBody == ContentLine(X) \o LF \o LF \o ContentLine(Y) \o LF \o LF \o DoneLine \o LF \o LF
AccentBody == ContentLine(EAcute) \o LF
CrLfBody == ContentLine(X) \o CRLF \o DoneLine \o CRLF
OpenBody == ContentLine(X) \o LF \o DoneLine

StreamBodies ==
    { <<>>, HelloBody, DoneBody, PartialBody, XBody, XDoneBody, DoneXBody,
      TwoDoneBody, AnomalyBody, NumContentBody, EventsBody,
      AccentBody, CrLfBody, OpenBody }

\* The body of a response that reports an error of the API.
ErrorBody == <<"{", "\"", "m", "e", "s", "s", "a", "g", "e", "\"", ":", "\"", "U", "n", "a", "u", "t", "h", "o", "r", "i", "z", "e", "d", "\"", "}">>

StatusOk == 200
StatusUnauthorized == 401
Statuses == {StatusOk, StatusUnauthorized}
Bodies(st) == IF st = StatusOk THEN StreamBodies ELSE {ErrorBody}

\* ------------------------------------------------------------ the request
\* str::contains (main.rs:223, 229).
Contains(s, sub) ==
    \E i \in 0..(Len(s) - Len(sub)) : SubSeq(s, i + 1, i + Len(sub)) = sub

\* main.rs:223  "codestral"
Codestral == <<"c", "o", "d", "e", "s", "t", "r", "a", "l">>
\* main.rs:192  the models chat_stream is called with (main.rs:495, 497)
MistralLargeLatest == <<"m", "i", "s", "t", "r", "a", "l", "-", "l", "a", "r", "g", "e", "-", "l", "a", "t", "e", "s", "t">>
CodestralLatest == <<"c", "o", "d", "e", "s", "t", "r", "a", "l", "-", "l", "a", "t", "e", "s", "t">>
Models == {MistralLargeLatest, CodestralLatest}

\* main.rs:224, 226
CodestralUrl == "https://codestral.mistral.ai/v1/chat/completions"
MistralUrl == "https://api.mistral.ai/v1/chat/completions"

\* The key, had it been the mistral key whatever the model.
ApiKey_AlwaysMistral(m) == "mistral_api_key"

\* main.rs:223-227: the endpoint of a model.
Url(m) == IF Contains(m, Codestral) THEN CodestralUrl ELSE MistralUrl

\* main.rs:229-233: the field of the client whose key is sent for a model.
ApiKey(m) == IF Contains(m, Codestral) THEN "codestral_api_key" ELSE "mistral_api_key"

\* main.rs:212-217: the request body; the messages are one fixed message.
Request(m) ==
    [model |-> m, messages |-> <<"user: Test">>, stream |-> TRUE, max_tokens |-> "None"]

\* main.rs:239-245: one POST.
Post(m) == [url |-> Url(m), key |-> ApiKey(m), json |-> Request(m)]

\* main.rs:251  Duration::from_secs(2)
RetrySecs == 2

\* The sleep before a retry, had it grown with the number of the retry.
RetryDelay_Growing(a) == RetrySecs * a

\* main.rs:251: the seconds slept before retry number a.
RetryDelay(a) == RetrySecs

\* Serializing the request for the debug record would fail.
SerializeFails_Always == TRUE

\* main.rs:220: whether serde_json::to_string(&request) fails.  ChatRequest
\* (main.rs:62-75) is strings, a bool and an Option<u32>: it always serializes.
SerializeFails == FALSE

\* main.rs:219-221: where chat_stream goes after building the request when
\* the debug flag is d: the `?` of the debug record returns the error.
StartTo(d) == IF d /\ SerializeFails THEN "err" ELSE "send"

\* ------------------------------------------------------------ the sink
\* main.rs:280-281, 289-290: the calls on stdout for a line outcome.
LineCalls_NoFlushOnDelta(p) ==
    IF p.kind = "done" THEN <<[op |-> "write", bytes |-> p.bytes], [op |-> "flush", bytes |-> <<>>]>>
    ELSE IF p.kind = "delta" THEN <<[op |-> "write", bytes |-> p.bytes]>>
    ELSE <<>>

LineCalls(p) ==
    IF Writes(p.kind)
    THEN <<[op |-> "write", bytes |-> p.bytes], [op |-> "flush", bytes |-> <<>>]>>
    ELSE <<>>

\* The calls on stdout for a sequence of line outcomes, in order.
RECURSIVE Calls(_)
Calls(ps) == IF ps = <<>> THEN <<>> ELSE LineCalls(Head(ps)) \o Calls(Tail(ps))

\* The bytes the write calls among cs write.
RECURSIVE CallBytes(_)
CallBytes(cs) ==
    IF cs = <<>> THEN <<>>
    ELSE (IF Head(cs).op = "write" THEN Head(cs).bytes ELSE <<>>) \o CallBytes(Tail(cs))

CountOp(cs, op) == Cardinality({i \in 1..Len(cs) : cs[i].op = op})

\* How many bytes are flushed after the calls cs, when out bytes were written
\* and fl of them flushed before.
RECURSIVE FlushedAfter(_, _, _)
FlushedAfter(cs, out, fl) ==
    IF cs = <<>> THEN fl
    ELSE IF Head(cs).op = "write" THEN FlushedAfter(Tail(cs), out + Len(Head(cs).bytes), fl)
    ELSE FlushedAfter(Tail(cs), out, out)

\* The outcomes of the lines the loop gets to when call number f on stdout
\* fails: those up to the line that makes the call.
RECURSIVE UpToCall(_, _)
UpToCall(ps, f) ==
    IF ps = <<>> THEN <<>>
    ELSE IF f <= Len(LineCalls(Head(ps))) THEN <<Head(ps)>>
    ELSE <<Head(ps)>> \o UpToCall(Tail(ps), f - Len(LineCalls(Head(ps))))

\* main.rs:278, 292, 297: the debug records of the line outcomes.
LineRecords(ps) ==
    Cardinality({i \in 1..Len(ps) : ps[i].kind \in {"done", "no_content", "parse_error"}})

\* What a failed call on stdout does, had its result been dropped.
OnSinkError_Ignored == "recv"

\* main.rs:280-281, 289-290: the `?` after a call on stdout returns the error.
OnSinkError == "err"

\* ------------------------------------------------------------ state
VARIABLES
    pc,           \* where chat_stream is: "start" (main.rs:199), "send"
                  \* (awaiting the send of main.rs:239-245), "sleep"
                  \* (main.rs:251), "recv" (awaiting stream.next(),
                  \* main.rs:266), "ok" (returned Ok(()), main.rs:312), "err"
                  \* (returned Err)
    attempts,     \* main.rs:235
    sends,        \* how many times the POST has been issued
    sleeps,       \* how many times the 2 s sleep has been started
    status,       \* the status of the response, 0 before there is one
    body,         \* the bytes of the response body
    rest,         \* the bytes of the body the stream has not yielded yet
    items,        \* how many items the stream has yielded
    stdout,       \* the bytes written to stdout
    done_seen,    \* whether the line loop has met a `data: [DONE]` line
    chunk_error,  \* whether the stream has yielded an Err item
    debug,        \* self.debug (main.rs:161)
    logged,       \* how many debug! records have been emitted
    model,        \* the model argument (main.rs:199)
    posts,        \* the POSTs issued, in order
    slept,        \* the seconds of every sleep started, in order
    writes,       \* how many write_all calls on stdout have succeeded
    flushes,      \* how many flush calls on stdout have succeeded
    flushed,      \* how many bytes of stdout have been flushed
    sink_failed,  \* whether a call on stdout has failed
    error         \* the error returned: "" (none), "send" (main.rs:254),
                  \* "sink" (main.rs:280-290), "serialize" (main.rs:220)

corevars == <<pc, attempts, sends, sleeps, status, body, rest, items, stdout,
              done_seen, chunk_error, model, posts, slept, writes, flushes,
              flushed, sink_failed, error>>

vars == <<pc, attempts, sends, sleeps, status, body, rest, items, stdout,
          done_seen, chunk_error, debug, logged, model, posts, slept, writes,
          flushes, flushed, sink_failed, error>>

Init ==
    /\ pc = "start"
    /\ attempts = 0
    /\ sends = 0
    /\ sleeps = 0
    /\ status = 0
    /\ body = <<>>
    /\ rest = <<>>
    /\ items = 0
    /\ stdout = <<>>
    /\ done_seen = FALSE
    /\ chunk_error = FALSE
    /\ debug \in BOOLEAN
    /\ logged = 0
    /\ model \in Models
    /\ posts = <<>>
    /\ slept = <<>>
    /\ writes = 0
    /\ flushes = 0
    /\ flushed = 0
    /\ sink_failed = FALSE
    /\ error = ""

\* k debug! records when the debug flag is set; the flag does not change.
Log(k) ==
    /\ logged' = (IF debug THEN logged + k ELSE logged)
    /\ debug' = debug

\* main.rs:199-236 when the debug flag is d: the request, the url and the
\* key are built.
StartFor(d) ==
    /\ pc = "start"
    /\ pc' = StartTo(d)
    /\ error' = (IF StartTo(d) = "err" THEN "serialize" ELSE "")
    /\ UNCHANGED <<attempts, sends, sleeps, status, body, rest, items, stdout,
                   done_seen, chunk_error, model, posts, slept, writes,
                   flushes, flushed, sink_failed>>

\* The guard of the retrying arm, had it counted the sends and not the retries.
CanRetry_CountsSends(a) == a + 1 < max_attempts

\* The guard of the retrying arm, had it allowed one retry only.
CanRetry_Once(a) == a < 1

\* The guard of the retrying arm, had it let the counter reach the maximum.
CanRetry_Inclusive(a) == a <= max_attempts

\* The guard of the retrying arm (main.rs:248).
CanRetry(a) == a < max_attempts

\* The Ok arm, had it treated a response of a non-success status as a failed
\* send to be retried.
SendOk_RetryOnStatus(st, b) ==
    /\ pc = "send"
    /\ sends' = sends + 1
    /\ posts' = Append(posts, Post(model))
    /\ status' = st
    /\ IF st # StatusOk /\ CanRetry(attempts)
       THEN /\ attempts' = attempts + 1
            /\ sleeps' = sleeps + 1
            /\ slept' = Append(slept, RetryDelay(attempts + 1))
            /\ pc' = "sleep"
            /\ UNCHANGED <<body, rest>>
       ELSE /\ body' = b
            /\ rest' = b
            /\ pc' = "recv"
            /\ UNCHANGED <<attempts, sleeps, slept>>
    /\ UNCHANGED <<items, stdout, done_seen, chunk_error, model, writes,
                   flushes, flushed, sink_failed, error>>

\* main.rs:247: the send returns a response, of whatever status; the loop
\* breaks and the body is read.
SendOk(st, b) ==
    /\ pc = "send"
    /\ sends' = sends + 1
    /\ posts' = Append(posts, Post(model))
    /\ status' = st
    /\ body' = b
    /\ rest' = b
    /\ pc' = "recv"
    /\ UNCHANGED <<attempts, sleeps, items, stdout, done_seen, chunk_error,
                   model, slept, writes, flushes, flushed, sink_failed, error>>

\* main.rs:248-252: the send fails and is retried after a sleep.
SendRetry ==
    /\ pc = "send"
    /\ CanRetry(attempts)
    /\ sends' = sends + 1
    /\ posts' = Append(posts, Post(model))
    /\ attempts' = attempts + 1
    /\ sleeps' = sleeps + 1
    /\ slept' = Append(slept, RetryDelay(attempts + 1))
    /\ pc' = "sleep"
    /\ UNCHANGED <<status, body, rest, items, stdout, done_seen, chunk_error,
                   model, writes, flushes, flushed, sink_failed, error>>

\* main.rs:251: the sleep is over, the loop issues the request again.
SleepDone ==
    /\ pc = "sleep"
    /\ pc' = "send"
    /\ UNCHANGED <<attempts, sends, sleeps, status, body, rest, items, stdout,
                   done_seen, chunk_error, model, posts, slept, writes,
                   flushes, flushed, sink_failed, error>>

\* main.rs:253-255: the send fails and chat_stream returns the error.
SendGiveUp ==
    /\ pc = "send"
    /\ ~CanRetry(attempts)
    /\ sends' = sends + 1
    /\ posts' = Append(posts, Post(model))
    /\ pc' = "err"
    /\ error' = "send"
    /\ UNCHANGED <<attempts, sleeps, status, body, rest, items, stdout,
                   done_seen, chunk_error, model, slept, writes, flushes,
                   flushed, sink_failed>>

\* Whether the stream can yield one more item that leaves bytes of the body
\* for later items.
RoomAfter == items + 1 < MaxItems

\* main.rs:268-273: the outcomes of the lines of the next n bytes of the body
\* as a chunk.
ChunkOutcomes(n) == ProcessChunk(SubSeq(rest, 1, n))

\* main.rs:266-303: the stream yields the next n bytes of the body as a chunk
\* and the lines of the chunk are worked through, with the outcomes ps
\* (ChunkOutcomes(n)); every call on stdout succeeds.
RecvChunk(n, ps) ==
    /\ pc = "recv"
    /\ items < MaxItems
    /\ n = Len(rest) \/ RoomAfter
    /\ rest' = Drop(rest, n)
    /\ items' = items + 1
    /\ stdout' = stdout \o Written(ps)
    /\ done_seen' = (done_seen \/ HasKind(ps, "done"))
    /\ \E cs \in {Calls(ps)} :
        /\ writes' = writes + CountOp(cs, "write")
        /\ flushes' = flushes + CountOp(cs, "flush")
        /\ flushed' = FlushedAfter(cs, Len(stdout), flushed)
    /\ UNCHANGED <<pc, attempts, sends, sleeps, status, body, chunk_error,
                   model, posts, slept, sink_failed, error>>

\* main.rs:266-303: as RecvChunk, but call number f on stdout for this chunk
\* fails: the calls before it are made, no call after it.
RecvChunkSinkFails(n, ps, f) ==
    /\ pc = "recv"
    /\ items < MaxItems
    /\ n = Len(rest) \/ RoomAfter
    /\ rest' = Drop(rest, n)
    /\ items' = items + 1
    /\ f \in 1..Len(Calls(ps))
    /\ \E made \in {SubSeq(Calls(ps), 1, f - 1)} :
        /\ stdout' = stdout \o CallBytes(made)
        /\ writes' = writes + CountOp(made, "write")
        /\ flushes' = flushes + CountOp(made, "flush")
        /\ flushed' = FlushedAfter(made, Len(stdout), flushed)
    /\ done_seen' = (done_seen \/ HasKind(UpToCall(ps, f), "done"))
    /\ sink_failed' = TRUE
    /\ pc' = OnSinkError
    /\ error' = (IF OnSinkError = "err" THEN "sink" ELSE error)
    /\ UNCHANGED <<attempts, sends, sleeps, status, body, chunk_error, model,
                   posts, slept>>

\* The debug records of RecvChunk (main.rs:271, 278, 292, 297).
ChunkRecords(ps) == 1 + LineRecords(ps)

\* The debug records of RecvChunkSinkFails.
FailedChunkRecords(ps, f) == 1 + LineRecords(UpToCall(ps, f))

\* main.rs:304-308: the stream yields an Err item; nothing is done with it.
ChunkErr ==
    /\ pc = "recv"
    /\ items < MaxItems
    /\ chunk_error' = TRUE
    /\ items' = items + 1
    /\ UNCHANGED <<pc, attempts, sends, sleeps, status, body, rest, stdout,
                   done_seen, model, posts, slept, writes, flushes, flushed,
                   sink_failed, error>>

\* The end of the stream, had the loop waited for the sentinel.
StreamEnd_WaitsForDone ==
    /\ pc = "recv"
    /\ rest = <<>> \/ chunk_error
    /\ done_seen
    /\ pc' = "ok"
    /\ UNCHANGED <<attempts, sends, sleeps, status, body, rest, items, stdout,
                   done_seen, chunk_error, model, posts, slept, writes,
                   flushes, flushed, sink_failed, error>>

\* main.rs:266, 312: the stream yields None, when the whole body has been
\* yielded or after an error; chat_stream returns Ok(()).
StreamEnd ==
    /\ pc = "recv"
    /\ rest = <<>> \/ chunk_error
    /\ pc' = "ok"
    /\ UNCHANGED <<attempts, sends, sleeps, status, body, rest, items, stdout,
                   done_seen, chunk_error, model, posts, slept, writes,
                   flushes, flushed, sink_failed, error>>

\* The sizes of the chunk the stream can yield next.
ChunkSizes ==
    IF pc = "recv" /\ items < MaxItems
    THEN (IF RoomAfter THEN 0..Len(rest) ELSE {Len(rest)})
    ELSE {}

\* main.rs:266-303: the stream yields an Ok item, but for the debug records.
\* The conjuncts before the outcomes of the lines repeat conjuncts of the
\* action, so that a step that is not of the action is told apart before the
\* lines are worked through.
ChunkStep ==
    \/ \E n \in ChunkSizes :
          /\ rest' = Drop(rest, n)
          /\ sink_failed' = sink_failed
          /\ \E ps \in {ChunkOutcomes(n)} : RecvChunk(n, ps)
    \/ \E n \in ChunkSizes :
          /\ rest' = Drop(rest, n)
          /\ sink_failed' = TRUE
          /\ \E ps \in {ChunkOutcomes(n)} : \E f \in 1..Len(Calls(ps)) :
                RecvChunkSinkFails(n, ps, f)

\* A step of chat_stream when the debug flag is d, but for the debug records.
StepFor(d) ==
    \/ StartFor(d)
    \/ \E st \in Statuses : \E b \in Bodies(st) : SendOk(st, b)
    \/ SendRetry
    \/ SleepDone
    \/ SendGiveUp
    \/ ChunkStep
    \/ ChunkErr
    \/ StreamEnd

Next ==
    \/ StartFor(debug) /\ Log(IF StartTo(debug) = "err" THEN 2 ELSE 3)
    \/ \E st \in Statuses : \E b \in Bodies(st) : SendOk(st, b) /\ Log(1)
    \/ SendRetry /\ Log(0)
    \/ SleepDone /\ Log(0)
    \/ SendGiveUp /\ Log(0)
    \/ \E n \in ChunkSizes : \E ps \in {ChunkOutcomes(n)} :
          RecvChunk(n, ps) /\ Log(ChunkRecords(ps))
    \/ \E n \in ChunkSizes : \E ps \in {ChunkOutcomes(n)} :
          \E f \in 1..Len(Calls(ps)) :
              RecvChunkSinkFails(n, ps, f) /\ Log(FailedChunkRecords(ps, f))
    \/ ChunkErr /\ Log(1)
    \/ StreamEnd /\ Log(0)

Spec == Init /\ [][Next]_vars

\* The runtime keeps polling chat_stream, and the transport ends every send
\* and yields every item or the end of the stream.
Scheduled ==
    \/ StreamEnd
    \/ ChunkErr
    \/ SleepDone
    \/ SendRetry
    \/ SendGiveUp
    \/ StartFor(debug)
    \/ \E st \in Statuses : \E b \in Bodies(st) : SendOk(st, b)
    \/ ChunkStep

FairSpec == Spec /\ WF_corevars(Scheduled)

\* ------------------------------------------------------------ the send loop

\* C1, as stated: the POST is never issued more than 3 times, and when the
\* loop gives up (every send has failed) it has sent exactly 3 times and
\* slept exactly 2 times.
C1_ThreeSends ==
    /\ sends <= 3
    /\ error = "send" => sends = 3 /\ sleeps = 2

\* C1, amended: the POST is never issued more than max_attempts + 1 = 4 times,
\* and when the loop gives up (every send has failed) it has sent exactly 4
\* times and slept exactly 3 times, once after each send but the last.
C1_FourSends ==
    /\ sends <= max_attempts + 1
    /\ sleeps <= max_attempts
    /\ error = "send" => sends = max_attempts + 1 /\ sleeps = max_attempts

\* Every send has failed and chat_stream has returned the error.
C1_Witness == pc = "err" /\ error = "send" /\ sends = 4 /\ sleeps = 3 /\ status = 0

\* C7: once a send has returned a response, whatever its status, the loop is
\* over: the response is kept, the body is read (never the retry path, and no
\* error return but for a failed call on stdout), and no further POST is
\* issued.
C7_StatusNeverRetried ==
    [][ /\ status' # 0 => (pc' \in {"recv", "ok"} \/ (pc' = "err" /\ sink_failed'))
        /\ status # 0 => sends' = sends /\ status' = status /\ attempts' = attempts
        /\ (pc = "send" /\ status' # 0) => sends' = sends + 1 /\ rest' = body'
      ]_vars

\* A response of a non-success status has been read to its end and
\* chat_stream has returned Ok after a single POST.
C7_Witness ==
    /\ status = StatusUnauthorized
    /\ pc = "ok"
    /\ sends = 1
    /\ body = ErrorBody
    /\ rest = <<>>

\* C8: a failure of the first or of the second send never ends the call with
\* an error, and a third send that returns a response ends the loop with that
\* response: its body, whole, is what the stream then yields, and the call
\* returns Ok once the stream has yielded all of it (unless a call on stdout
\* fails).
C8_ThirdSendSucceeds ==
    [][ /\ (pc = "send" /\ sends < 2) => pc' # "err"
        /\ (pc = "send" /\ sends = 2 /\ status' # 0) =>
              /\ pc' = "recv"
              /\ sends' = 3
              /\ attempts' = 2
              /\ rest' = body'
              /\ stdout' = <<>>
        /\ (pc = "recv" /\ pc' # "recv" /\ ~sink_failed') =>
              /\ pc' = "ok"
              /\ rest = <<>> \/ chunk_error
      ]_vars

\* The first two sends failed, the third returned the response whose body
\* has been decoded and printed.
C8_Witness ==
    /\ sends = 3
    /\ attempts = 2
    /\ sleeps = 2
    /\ pc = "ok"
    /\ body = HelloBody
    /\ stdout = Hel \o lo \o Newline

\* ------------------------------------------------------------ decoding

\* The lines of a whole body, and the content strings of its content lines
\* in the order of the lines.
BodyLines(b) == lines(from_utf8_lossy(b))

RECURSIVE Contents(_)
Contents(ls) ==
    IF ls = <<>> THEN <<>>
    ELSE (IF ProcessLine(Head(ls)).kind = "delta" THEN ProcessLine(Head(ls)).bytes
          ELSE <<>>) \o Contents(Tail(ls))

StreamDeltas(b) == Contents(BodyLines(b))

\* The bytes of the output that are not line terminators.
DeltaBytes(out) == SelectSeq(out, LAMBDA c : c # "\n")

\* The last line of the body is its only `data: [DONE]` line.
OnlyDoneLast(b) ==
    LET ls == BodyLines(b) IN
    /\ ls # <<>>
    /\ ls[Len(ls)] = DoneLine
    /\ \A i \in 1..(Len(ls) - 1) : ls[i] # DoneLine

\* C2: once a `data: [DONE]` line has been met, nothing more is written: no
\* later chunk writes a delta or another terminator.
C2_NothingAfterDone == [][done_seen => stdout' = stdout]_vars

\* C3: a body that is one content line, however the stream cuts it into
\* chunks, prints the content of the line, once.
C3_Reassembly ==
    (pc = "ok" /\ rest = <<>> /\ body \in {XBody, PartialBody}) =>
        stdout = StreamDeltas(body)

\* C4: when the stream has ended, no `data: [DONE]` line was met and a delta
\* has been written, the output ends with a line terminator.
C4_TerminatorAtEnd ==
    (pc = "ok" /\ ~done_seen /\ stdout # <<>>) => stdout[Len(stdout)] = "\n"

\* C5: when the last line of the body is its only `data: [DONE]` line and the
\* whole body has been read, the output is the contents of the body's content
\* lines in order, followed by one line terminator.
C5_DeltasThenNewline ==
    (pc = "ok" /\ rest = <<>> /\ OnlyDoneLast(body)) =>
        stdout = StreamDeltas(body) \o Newline

\* C6: at every point the delta bytes written so far are a prefix of the
\* contents of the body's content lines, concatenated in order.
C6_DeltasInOrder ==
    status # 0 => IsPrefix(DeltaBytes(stdout), StreamDeltas(body))

\* C9: chat_stream does not return Ok when the stream has yielded an error.
C9_ErrorOnChunkError == pc = "ok" => ~chunk_error

\* A line that is a decode anomaly: no `data: ` prefix, or a payload other
\* than [DONE] that is not JSON or has no string at choices[0].delta.content.
Anomalous(line) ==
    \/ ~StartsWith(line, DataPrefix)
    \/ /\ Drop(line, 6) # DoneToken
       /\ \/ ~from_str(Drop(line, 6)).ok
          \/ ~IsStr(ContentValue(from_str(Drop(line, 6)).val))

\* C10: a chunk whose calls on stdout succeed is worked through exactly as
\* the same chunk without its anomalous lines would be: the same bytes are
\* written, the sentinel is met or not met alike, and chat_stream goes on
\* reading the stream, without error.
C10_AnomaliesSkipped ==
    [][ (pc = "recv" /\ items' = items + 1 /\ chunk_error' = chunk_error
            /\ ~sink_failed') =>
          \A chunk \in {SubSeq(rest, 1, Len(rest) - Len(rest'))} :
          \A kept \in {SelectSeq(lines(from_utf8_lossy(chunk)),
                                 LAMBDA l : ~Anomalous(l))} :
          \A ps \in {ForLines(kept)} :
              /\ stdout' = stdout \o Written(ps)
              /\ done_seen' = (done_seen \/ HasKind(ps, "done"))
              /\ pc' = "recv"
      ]_vars

\* A chunk with a line without prefix, a payload that is not JSON and a
\* payload without content, each before a content line, has printed that
\* content and chat_stream has returned Ok.
C10_Witness ==
    /\ pc = "ok"
    /\ body = AnomalyBody
    /\ items = 1
    /\ rest = <<>>
    /\ stdout = X


\* ------------------------------------------------------------ the sink

\* C11: a failed call on stdout makes chat_stream return that error at once,
\* and after it no chunk is read and no call on stdout is made.
C11_SinkFailureFatal ==
    [][ /\ sink_failed' => (pc' = "err" /\ error' = "sink")
        /\ sink_failed => UNCHANGED <<items, rest, stdout, writes, flushes, flushed, pc>>
      ]_vars

\* The write of the second delta failed after the first delta was written and
\* flushed; chat_stream has returned the error.
C11_Witness ==
    /\ sink_failed
    /\ pc = "err"
    /\ error = "sink"
    /\ body = HelloBody
    /\ stdout = Hel
    /\ writes = 1
    /\ flushes = 1

\* C12: a failed send that is followed by another attempt is followed by one
\* sleep of 2 seconds and the attempt comes when that sleep is over; every
\* sleep is of 2 seconds; no sleep is started after a send that returns a
\* response or after the failed send that makes the call give up.
C12_FixedBackoff ==
    [][ /\ (pc = "send" /\ pc' = "sleep") => slept' = Append(slept, 2)
        /\ (pc = "send" /\ pc' # "sleep") => slept' = slept
        /\ pc = "sleep" => (pc' = "send" /\ slept' = slept /\ sends' = sends)
        /\ pc' = "send" => Len(slept') = sends'
        /\ \A i \in 1..Len(slept') : slept'[i] = 2
      ]_vars

\* Two sends failed, each followed by a sleep of 2 seconds, and the third
\* returned a response.
C12_Witness == slept = <<2, 2>> /\ sends = 3 /\ status # 0

\* C13: every step chat_stream takes is, but for the debug records, a step it
\* takes with the debug flag the other way, so the sends, the bytes written
\* and the result do not depend on the flag.
C13_DebugAdvisory == [][StepFor(~debug)]_corevars

\* A run with the debug flag set has emitted debug records, printed the
\* deltas and returned Ok.
C13_Witness ==
    /\ debug
    /\ logged > 3
    /\ pc = "ok"
    /\ body = HelloBody
    /\ stdout = Hel \o lo \o Newline

\* C14: every successful write on stdout is followed by a flush before
\* anything else: at most one write is without its flush, only when a call on
\* stdout has failed, and whenever chat_stream waits for the stream (or has
\* returned Ok) every byte written has been flushed.
C14_WriteThenFlush ==
    /\ writes - flushes \in {0, 1}
    /\ writes > flushes => sink_failed
    /\ pc \in {"recv", "ok"} => (flushes = writes /\ flushed = Len(stdout))

\* chat_stream waits for the next chunk with two deltas written and flushed.
C14_Witness ==
    /\ pc = "recv"
    /\ rest # <<>>
    /\ stdout = Hel \o lo
    /\ writes = 2
    /\ flushes = 2
    /\ flushed = 5

\* C15: a failed send is retried at most three times (the counter of retries
\* never passes 3 and there is at most one send more than retries), and the
\* send loop returns the error only when a send fails with three retries made.
C15_ThreeRetries ==
    [][ /\ attempts' <= 3
        /\ sends' <= attempts' + 1
        /\ (pc = "send" /\ pc' = "err") =>
              (attempts = 3 /\ sends = 3 /\ error' = "send")
      ]_vars

\* The send after the third retry has failed and the error is returned.
C15_Witness ==
    /\ error = "send"
    /\ attempts = max_attempts
    /\ Len(posts) = 4
    /\ Len(slept) = 3

C17_RestOfChunkDropped ==
    [][ (pc = "recv" /\ items' = items + 1 /\ chunk_error' = chunk_error
            /\ ~sink_failed') =>
          \A chunk \in {SubSeq(rest, 1, Len(rest) - Len(rest'))} :
          \A ls \in {lines(from_utf8_lossy(chunk))} :
          \A D \in {{i \in 1..Len(ls) : ls[i] = DoneLine}} :
              D # {} =>
                  \A before \in {Contents(SubSeq(ls, 1, Min(D) - 1))} :
                      /\ stdout' = stdout \o before \o <<"\n">>
                      /\ flushed' = Len(stdout')
                      /\ done_seen'
      ]_vars

\* A chunk with a sentinel followed by a content line has written one line
\* terminator and nothing else.
C17_Witness ==
    /\ body = DoneXBody
    /\ items = 1
    /\ rest = <<>>
    /\ stdout = <<"\n">>
    /\ flushed = 1

\* C18: every POST goes to the codestral endpoint exactly when the model name
\* contains "codestral", carries the codestral key exactly when it goes to the
\* codestral endpoint, and is the same as the first POST.
C18_EndpointAndKeyPaired ==
    /\ Len(posts) = sends
    /\ \A i \in 1..Len(posts) :
        /\ posts[i].url \in {CodestralUrl, MistralUrl}
        /\ posts[i].key \in {"codestral_api_key", "mistral_api_key"}
        /\ posts[i].url = CodestralUrl <=> Contains(model, Codestral)
        /\ posts[i].key = "codestral_api_key" <=> posts[i].url = CodestralUrl
        /\ posts[i] = posts[1]

\* The third POST of a call for a codestral model has gone to the codestral
\* endpoint with the codestral key.
C18_Witness ==
    /\ model = CodestralLatest
    /\ Len(posts) = 3
    /\ posts[3].url = CodestralUrl
    /\ posts[3].key = "codestral_api_key"

====
